---- MODULE Spec2Model ----
(***************************************************************************)
(* Ticket list synchronisation of whaticket-free.                          *)
(*                                                                         *)
(*   frontend/src/components/TicketsList/index.js                          *)
(*       reducer (LOAD_TICKETS / RESET), the TicketsList component: its    *)
(*       effects, its socket handlers and handleScroll                     *)
(*   unnamed/part_000                                                      *)
(*       ListTicketsService and ListTicketsServiceInternal, with the       *)
(*       module-level currentAbortController                               *)
(*                                                                         *)
(*   backend/src/services/AuthServices/RefreshTokenService.ts              *)
(*       RefreshTokenService                                               *)
(*                                                                         *)
(* Five specifications share the variables:                                *)
(*   SpecReducer  the reducer alone, driven by dispatched actions          *)
(*   SpecService  the backend service called by several consumers          *)
(*   SpecList     the mounted TicketsList component, its fetches served    *)
(*                by the backend service                                   *)
(*   SpecQuery    ListTicketsServiceInternal: one query of a store         *)
(*   SpecRefresh  RefreshTokenService called with any token                *)
(***************************************************************************)
EXTENDS Integers, Sequences, FiniteSets, TLC

VARIABLES
    \* ---- TicketsList component (index.js:81-162)
    ticketsList,            \* useReducer(reducer, []) state           (index.js:92)
    lastAction,             \* the action last dispatched to reducer   (history)
    prevTicketsList,        \* reducer state before that dispatch      (history)
    \* ---- ListTicketsService (part_000:32-57)
    currentAbortController, \* 0 = null, else the id of the call that created it
    inflight,               \* calls suspended at the await of line 46
    nextCall,               \* number of calls issued so far
    lastResolved,           \* how the call that settled last settled  (history)
    \* ---- TicketsList component, mounted (index.js:81-162)
    mounted,                \* the component is mounted
    props,                  \* status, searchParam, showAll, selectedQueueIds, tags
    user,                   \* AuthContext user: id, profile, queues    (index.js:93)
    pageNumber,             \* useState(1)                              (index.js:91)
    tickets,                \* useTickets: the page last delivered      (index.js:96)
    hasMore,                \* useTickets: hasMore of that page         (index.js:96)
    loading,                \* useTickets: a request is awaited         (index.js:96)
    sockets,                \* connected sockets opened by the effect   (index.js:131)
    filterGen,              \* number of filter changes so far          (history)
    lastEvent,              \* the handler that ran last, and its input (history)
    \* ---- ListTicketsServiceInternal (part_000:60-212)
    queryStore,             \* the tables the queries read
    queryRequest,           \* the Request of the call                  (history)
    queryResponse,          \* the Response it returned
    \* ---- RefreshTokenService (RefreshTokenService.ts:24-57)
    userStore,              \* tokenVersion of each stored user
    refreshResult           \* the call made last: its token and outcome

reducerVars == <<ticketsList, lastAction, prevTicketsList>>
serviceVars == <<currentAbortController, inflight, nextCall, lastResolved>>
listVars == <<mounted, props, user, pageNumber, tickets, hasMore, loading,
              sockets, filterGen, lastEvent>>
queryVars == <<queryStore, queryRequest, queryResponse>>
refreshVars == <<userStore, refreshResult>>
backendVars == <<queryVars, refreshVars>>
vars == <<reducerVars, serviceVars, listVars, backendVars>>

-----------------------------------------------------------------------------
(* Bounds *)

MaxId == 2          \* ticket ids 1..MaxId in the reducer specification
MaxBatch == 2       \* longest LOAD_TICKETS payload in the reducer specification
MaxCalls == 3       \* calls of ListTicketsService in one behaviour
MaxPage == 2        \* highest pageNumber requested
MaxFilterChanges == 1   \* filter changes in one behaviour of the component

-----------------------------------------------------------------------------
(* Tickets.  A ticket is a record; `gen` is a history field (the filter    *)
(* generation under which the ticket was requested or pushed), which the   *)
(* code never reads: it compares ids and unreadMessages only.              *)

NoUser == 0         \* ticket.userId null / undefined
NoQueue == 0        \* ticket.queueId null / undefined

Ticket(id, unread, userId, queueId, gen) ==
    [id |-> id, unreadMessages |-> unread, userId |-> userId,
     queueId |-> queueId, gen |-> gen]

\* unreadMessages is only tested for > 0 (index.js:63): none, or some.
UnreadCounts == {0, 1}

ReducerTickets ==
    { Ticket(id, u, NoUser, NoQueue, 0) : id \in 1..MaxId, u \in UnreadCounts }

RECURSIVE SeqsUpTo(_, _)
SeqsUpTo(S, n) ==
    IF n = 0 THEN { <<>> }
    ELSE LET shorter == SeqsUpTo(S, n - 1)
         IN  shorter \cup { Append(q, x) : q \in shorter, x \in S }

ReducerBatches == SeqsUpTo(ReducerTickets, MaxBatch)

-----------------------------------------------------------------------------
(* reducer, index.js:53-79 *)

\* Array.prototype.findIndex((t) => t.id === ticket.id): the first matching
\* position, 1-based; 0 stands for JavaScript's -1.
FindIndex(updatedState, id) ==
    IF \E i \in 1..Len(updatedState) : updatedState[i].id = id
    THEN CHOOSE i \in 1..Len(updatedState) :
            /\ updatedState[i].id = id
            /\ \A j \in 1..(i - 1) : updatedState[j].id # id
    ELSE 0

\* updatedState.splice(index, 1): the array without position index.
Splice(updatedState, index) ==
    SubSeq(updatedState, 1, index - 1)
        \o SubSeq(updatedState, index + 1, Len(updatedState))

\* a plausible slip: every ticket of the payload is pushed, found or not
MergeTicketAlwaysPush(updatedState, ticket) == Append(updatedState, ticket)

\* a plausible slip: a ticket that is new and unread is put first
MergeTicketNewUnreadFirst(updatedState, ticket) ==
    LET index == FindIndex(updatedState, ticket.id) IN
    IF index # 0
    THEN LET replaced == [updatedState EXCEPT ![index] = ticket] IN
         IF ticket.unreadMessages > 0
         THEN <<replaced[index]>> \o Splice(replaced, index)
         ELSE replaced
    ELSE IF ticket.unreadMessages > 0
         THEN <<ticket>> \o updatedState
         ELSE Append(updatedState, ticket)

\* a plausible slip: what splice removed is not put back
MergeTicketSpliceOnly(updatedState, ticket) ==
    LET index == FindIndex(updatedState, ticket.id) IN
    IF index # 0
    THEN LET replaced == [updatedState EXCEPT ![index] = ticket] IN
         IF ticket.unreadMessages > 0
         THEN Splice(replaced, index)
         ELSE replaced
    ELSE Append(updatedState, ticket)

\* The body of newTickets.forEach, index.js:59-69.
MergeTicket(updatedState, ticket) ==
    LET index == FindIndex(updatedState, ticket.id) IN
    IF index # 0
    THEN LET replaced == [updatedState EXCEPT ![index] = ticket] IN
         IF ticket.unreadMessages > 0
         THEN <<replaced[index]>> \o Splice(replaced, index)
         ELSE replaced
    ELSE Append(updatedState, ticket)

RECURSIVE LoadTickets(_, _)
\* newTickets.forEach(...) over a copy of the state, index.js:56-71.
LoadTickets(updatedState, newTickets) ==
    IF newTickets = <<>> THEN updatedState
    ELSE LoadTickets(MergeTicket(updatedState, Head(newTickets)), Tail(newTickets))

\* a plausible slip: RESET leaves the list as it is
reducerResetKeeps(state, action) ==
    CASE action.type = "LOAD_TICKETS" -> LoadTickets(state, action.payload)
      [] OTHER                        -> state

reducer(state, action) ==
    CASE action.type = "LOAD_TICKETS" -> LoadTickets(state, action.payload)
      [] action.type = "RESET"        -> <<>>
      [] OTHER                        -> state

LoadAction(payload) == [type |-> "LOAD_TICKETS", payload |-> payload]
ResetAction == [type |-> "RESET", payload |-> <<>>]
NoAction == [type |-> "INIT", payload |-> <<>>]

\* dispatch(action): the reducer's result becomes the component's list.
Dispatch(action) ==
    /\ prevTicketsList' = ticketsList
    /\ lastAction' = action
    /\ ticketsList' = reducer(ticketsList, action)

-----------------------------------------------------------------------------
(* ListTicketsService and ListTicketsServiceInternal, part_000:32-212 *)

limit == 40         \* part_000:192

Consumers == {"opA", "opB"}     \* the operators whose requests reach the service

\* What Ticket.findAndCountAll can hand back (part_000:195-203): the rows of
\* the page and the count. The store is external, and the count and the rows
\* are read by two queries, so both are inputs. Rows carry the generation of
\* the request that asked for them.
DbRowChoices(gen) ==
    { <<>>,
      <<Ticket(2, 1, NoUser, NoQueue, gen), Ticket(1, 0, 1, 2, gen)>> }

Offset(page) == limit * (page - 1)              \* part_000:193

\* The count is that of the rows up to this page, or one more; an empty page
\* comes with no further row.
DbResults(page, gen) ==
    { [kind |-> "rows", rows |-> rows, count |-> Offset(page) + Len(rows) + extra]
        : rows \in DbRowChoices(gen) \ {<<>>}, extra \in {0, 1} }
    \cup { [kind |-> "rows", rows |-> <<>>, count |-> Offset(page)],
           [kind |-> "error", name |-> "SequelizeDatabaseError"] }

EmptyPage == [tickets |-> <<>>, count |-> 0, hasMore |-> FALSE]

\* a plausible slip: >= where the code has >
InternalPageAtLeast(page, db) ==
    [tickets |-> db.rows,
     count   |-> db.count,
     hasMore |-> db.count >= Offset(page) + Len(db.rows)]

\* part_000:205-211: the page ListTicketsServiceInternal returns.
InternalPage(page, db) ==
    [tickets |-> db.rows,
     count   |-> db.count,
     hasMore |-> db.count > Offset(page) + Len(db.rows)]

\* part_000:76-78: the only place the signal is read, before the first await.
\* The error thrown there is a plain Error, whose name is "Error".
InternalEntry(signalAborted) ==
    IF signalAborted THEN [kind |-> "throw", name |-> "Error"]
                     ELSE [kind |-> "proceed", name |-> ""]

\* part_000:48-53: the catch clause of ListTicketsService.
Catch(errorName) ==
    IF errorName = "AbortError"
    THEN [outcome |-> "page", response |-> EmptyPage]
    ELSE [outcome |-> "error", response |-> EmptyPage]

\* part_000:45-53: what the call resolves to, from what the awaited
\* ListTicketsServiceInternal did. The signal is not consulted again.
Resolve(call, db) ==
    IF db.kind = "rows"
    THEN [outcome |-> "page", response |-> InternalPage(call.pageNumber, db)]
    ELSE Catch(db.name)

\* part_000:38-40: currentAbortController.abort(), when the handle is set.
AbortCurrent(calls, controller) ==
    { IF c.id = controller THEN [c EXCEPT !.aborted = TRUE] ELSE c : c \in calls }

\* history: the calls of this consumer that a new call of it finds unsettled
MarkSuperseded(calls, consumer) ==
    { IF c.consumer = consumer THEN [c EXCEPT !.superseded = TRUE] ELSE c
        : c \in calls }

NoneResolved ==
    [id |-> 0, consumer |-> "", pageNumber |-> 0, gen |-> 0,
     aborted |-> FALSE, superseded |-> FALSE,
     outcome |-> "none", queried |-> <<>>, response |-> EmptyPage]

Resolved(call, outcome, queried, response) ==
    [id |-> call.id, consumer |-> call.consumer, pageNumber |-> call.pageNumber,
     gen |-> call.gen, aborted |-> call.aborted, superseded |-> call.superseded,
     outcome |-> outcome, queried |-> queried, response |-> response]

ServiceInit ==
    /\ currentAbortController = 0
    /\ inflight = {}
    /\ nextCall = 0
    /\ lastResolved = NoneResolved

\* ListTicketsService(params) up to its await (part_000:36-46, 60-78): the
\* current handle is aborted, a new controller replaces it, and
\* ListTicketsServiceInternal runs to its first await.
ServiceCall(consumer, page, gen) ==
    LET id      == nextCall + 1
        earlier == MarkSuperseded(AbortCurrent(inflight, currentAbortController),
                                  consumer)
        call    == [id |-> id, consumer |-> consumer, pageNumber |-> page,
                    gen |-> gen, aborted |-> FALSE, superseded |-> FALSE]
        entry   == InternalEntry(call.aborted)
    IN  /\ nextCall < MaxCalls
        /\ nextCall' = id
        /\ IF entry.kind = "throw"
           THEN /\ inflight' = earlier
                /\ currentAbortController' = 0                  \* finally
                /\ lastResolved' =
                      Resolved(call, Catch(entry.name).outcome, <<>>,
                               Catch(entry.name).response)
           ELSE /\ inflight' = earlier \cup {call}
                /\ currentAbortController' = id
                /\ UNCHANGED lastResolved

\* The awaited query of `call` settles with `db` (part_000:195-211), the
\* call returns or throws (part_000:46-53) and its finally clause clears the
\* handle (part_000:54-56), whichever call the handle belongs to.
SettleCall(call) ==
    /\ call \in inflight
    /\ inflight' = inflight \ {call}
    /\ currentAbortController' = 0
    /\ UNCHANGED nextCall

ServiceSettle(call, db) ==
    LET r == Resolve(call, db) IN
    /\ SettleCall(call)
    /\ lastResolved' =
          Resolved(call, r.outcome,
                   IF db.kind = "rows" THEN db.rows ELSE <<>>, r.response)

-----------------------------------------------------------------------------
(* SpecReducer: the reducer driven by dispatched actions, from the state   *)
(* useReducer(reducer, []) starts in.                                      *)

\* The component's variables where no component is mounted.
ListIdle ==
    /\ mounted = FALSE
    /\ props = [status |-> "", searchParam |-> "", showAll |-> FALSE,
                selectedQueueIds |-> {}, tags |-> {}]
    /\ user = [id |-> 0, profile |-> "", queues |-> {}]
    /\ pageNumber = 1
    /\ tickets = <<>>
    /\ hasMore = FALSE
    /\ loading = FALSE
    /\ sockets = <<>>
    /\ filterGen = 0
    /\ lastEvent = [kind |-> "none", malformed |-> FALSE, threw |-> FALSE,
                    dispatched |-> <<>>]

\* The backend's variables where neither ListTicketsServiceInternal nor
\* RefreshTokenService is called.
QueryIdle ==
    /\ queryStore = <<>>
    /\ queryRequest = <<>>
    /\ queryResponse = <<>>

RefreshIdle ==
    /\ userStore = <<>>
    /\ refreshResult = <<>>

BackendIdle == QueryIdle /\ RefreshIdle

ReducerInit ==
    /\ ticketsList = <<>>
    /\ lastAction = NoAction
    /\ prevTicketsList = <<>>
    /\ ServiceInit
    /\ ListIdle
    /\ BackendIdle

DispatchLoadTickets ==
    \E payload \in ReducerBatches :
        /\ Dispatch(LoadAction(payload))
        /\ UNCHANGED <<serviceVars, listVars, backendVars>>

DispatchReset ==
    /\ Dispatch(ResetAction)
    /\ UNCHANGED <<serviceVars, listVars, backendVars>>

ReducerNext == DispatchLoadTickets \/ DispatchReset

SpecReducer == ReducerInit /\ [][ReducerNext]_vars

-----------------------------------------------------------------------------
(* Helpers for the claims about the list *)

Ids(list) == { list[i].id : i \in 1..Len(list) }

\* position of the entry with this id (0 when absent)
IndexOf(list, id) ==
    IF \E i \in 1..Len(list) : list[i].id = id
    THEN CHOOSE i \in 1..Len(list) :
            list[i].id = id /\ \A j \in 1..(i - 1) : list[j].id # id
    ELSE 0

\* last position of the id in a batch (0 when absent)
LastIn(batch, id) ==
    IF \E i \in 1..Len(batch) : batch[i].id = id
    THEN CHOOSE i \in 1..Len(batch) :
            /\ batch[i].id = id
            /\ \A j \in (i + 1)..Len(batch) : batch[j].id # id
    ELSE 0

-----------------------------------------------------------------------------
(* C1 *)

\* C1: Uniqueness. After any sequence of LOAD_TICKETS merges (batches may
\* repeat an id) and RESETs from the empty list, no two entries of the list
\* have the same id.
C1_UniqueIds ==
    \A i, j \in 1..Len(ticketsList) :
        i # j => ticketsList[i].id # ticketsList[j].id

\* a merge of a batch that repeats an id has produced a list of two tickets
C1_Witness ==
    /\ lastAction.type = "LOAD_TICKETS"
    /\ \E i, j \in 1..Len(lastAction.payload) :
          i # j /\ lastAction.payload[i].id = lastAction.payload[j].id
    /\ Len(prevTicketsList) >= 1
    /\ Len(ticketsList) >= 2

-----------------------------------------------------------------------------
(* C5 *)

\* The batch entry at position j is the version of its ticket that the merge
\* leaves in the list (no later entry of the batch has the same id).
IsLastOf(batch, j) == LastIn(batch, batch[j].id) = j

\* The list entry with this id was merged before batch entry j: it comes from
\* an earlier merge and the batch does not touch it, or its last occurrence
\* in the batch precedes j.
MergedBefore(batch, j, id) ==
    /\ id # batch[j].id
    /\ id \in Ids(prevTicketsList) \cup { batch[i].id : i \in 1..(j - 1) }
    /\ LastIn(batch, id) < j

\* C5: Unread-first. After a LOAD_TICKETS merge, every ticket of the batch
\* with unreadMessages > 0 stands at an index less than or equal to the index
\* of every ticket that was merged before it and has unreadMessages = 0,
\* whether the unread ticket was already in the list or is new to it.
C5_UnreadFirst ==
    lastAction.type = "LOAD_TICKETS" =>
        \A j \in 1..Len(lastAction.payload) :
            LET batch == lastAction.payload
                t == batch[j]
            IN  (t.unreadMessages > 0 /\ IsLastOf(batch, j)) =>
                    \A q \in 1..Len(ticketsList) :
                        ( /\ ticketsList[q].unreadMessages = 0
                          /\ MergedBefore(batch, j, ticketsList[q].id) )
                        => IndexOf(ticketsList, t.id) <= q

-----------------------------------------------------------------------------
(* C6 *)

\* C6: Idempotence of replace. For the list s the component holds and every
\* ticket t (present or absent in s, unread or not), merging [t] twice gives
\* the same ordered list as merging it once.
C6_MergeIdempotent ==
    \A t \in ReducerTickets :
        LET once == reducer(ticketsList, LoadAction(<<t>>))
        IN  reducer(once, LoadAction(<<t>>)) = once

-----------------------------------------------------------------------------
(* SpecService: ListTicketsService called by the consumers' requests, in    *)
(* any interleaving of calls and settlements.                               *)

ServiceSpecInit ==
    /\ ServiceInit
    /\ ticketsList = <<>>
    /\ lastAction = NoAction
    /\ prevTicketsList = <<>>
    /\ ListIdle
    /\ BackendIdle

Call ==
    \E consumer \in Consumers, page \in 1..MaxPage :
        /\ ServiceCall(consumer, page, 0)
        /\ UNCHANGED <<reducerVars, listVars, backendVars>>

Settle ==
    \E call \in inflight :
        \E db \in DbResults(call.pageNumber, call.gen) :
            /\ ServiceSettle(call, db)
            /\ UNCHANGED <<reducerVars, listVars, backendVars>>

ServiceNext == Call \/ Settle

SpecService == ServiceSpecInit /\ [][ServiceNext]_vars

-----------------------------------------------------------------------------
(* C2 *)

\* C2: Supersede. A fetch that a later fetch of the same consumer found
\* unsettled does not deliver its query result: it resolves, without error,
\* to the empty page {tickets: [], count: 0, hasMore: false}.
C2_SupersededResolvesEmpty ==
    lastResolved.superseded =>
        /\ lastResolved.outcome = "page"
        /\ lastResolved.response = EmptyPage

-----------------------------------------------------------------------------
(* C4 *)

\* C4: At most one in-flight fetch. Whenever a new fetch is issued, every
\* earlier unsettled fetch of the consumer has its abort signal triggered, so
\* no two un-cancelled fetches of a consumer are in flight together.
C4_AtMostOneInFlight ==
    \A a, b \in inflight :
        (a # b /\ a.consumer = b.consumer) => (a.aborted \/ b.aborted)

-----------------------------------------------------------------------------
(* The TicketsList component, index.js:81-162 *)

Operator == "opA"       \* the consumer whose browser shows this list

\* The props the parent can pass.
PropsSpace ==
    [status : {"", "open"}, searchParam : {"", "a"}, showAll : BOOLEAN,
     selectedQueueIds : {{}, {1}}, tags : {{}, {1}}]

InitialProps ==
    [status |-> "open", searchParam |-> "", showAll |-> FALSE,
     selectedQueueIds |-> {1}, tags |-> {}]

\* The users AuthContext holds, in the order they sign in: an operator with
\* profile "user" (queue 1), then one with profile "admin" (queues 1 and 2).
SignIns ==
    << [id |-> 1, profile |-> "user",  queues |-> {1}],
       [id |-> 2, profile |-> "admin", queues |-> {1, 2}] >>

InitialUser == SignIns[1]

\* What the push feed can send on "ticket": updates of a ticket owned by
\* nobody, by user 1 or by user 2 (in no queue), of a ticket in queue 1 or
\* queue 2 (owned by nobody); deletes of a ticket of user 1 in queue 1 and of
\* a ticket of user 2 in queue 2; an update that carries no ticket; an event
\* that carries no action.
PushTickets(g) ==
    { Ticket(2, 1, u, NoQueue, g) : u \in {NoUser, 1, 2} }
    \cup { Ticket(2, 1, NoUser, q, g) : q \in {1, 2} }

NoTicket == Ticket(0, 0, NoUser, NoQueue, 0)

PushEvents(g) ==
    { [action |-> "update", hasTicket |-> TRUE, ticket |-> t] : t \in PushTickets(g) }
    \cup { [action |-> "delete", hasTicket |-> TRUE, ticket |-> Ticket(2, 1, 1, 1, g)],
           [action |-> "delete", hasTicket |-> TRUE, ticket |-> Ticket(1, 0, 2, 2, g)],
           [action |-> "update", hasTicket |-> FALSE, ticket |-> NoTicket],
           [action |-> "",       hasTicket |-> FALSE, ticket |-> NoTicket] }

\* An event that lacks a required field: no action, or an update without
\* its ticket.
Malformed(data) ==
    \/ data.action \notin {"update", "delete"}
    \/ data.action = "update" /\ ~data.hasTicket

\* status || "general", index.js:138
ChannelKey(st) == IF st = "" THEN "general" ELSE st

\* a plausible slip: showAll is left out of the membership test
shouldUpdateTicketNoShowAll(closure, ticket) ==
    /\ (ticket.userId = NoUser \/ ticket.userId = closure.userId)
    /\ (ticket.queueId = NoQueue \/ ticket.queueId \in closure.selectedQueueIds)

\* index.js:133-135, over the values the effect's closure holds
shouldUpdateTicket(closure, ticket) ==
    /\ (ticket.userId = NoUser \/ ticket.userId = closure.userId \/ closure.showAll)
    /\ (ticket.queueId = NoQueue \/ ticket.queueId \in closure.selectedQueueIds)

\* a plausible slip: a delete is subject to the membership test as well
OnTicketDeleteIfMember(closure, data) ==
    IF data.action = "update" /\ ~data.hasTicket
    THEN [threw |-> TRUE, actions |-> <<>>]
    ELSE [threw |-> FALSE,
          actions |->
              (IF data.action = "update" /\ shouldUpdateTicket(closure, data.ticket)
               THEN <<LoadAction(<<data.ticket>>)>> ELSE <<>>)
              \o (IF data.action = "delete" /\ shouldUpdateTicket(closure, data.ticket)
                  THEN <<ResetAction>> ELSE <<>>)]

\* socket.on("ticket", ...), index.js:141-149: whether the handler throws and
\* the actions it dispatches, in order. Reading a property of data.ticket when
\* the event carries no ticket is a TypeError, which nothing catches.
OnTicket(closure, data) ==
    IF data.action = "update" /\ ~data.hasTicket
    THEN [threw |-> TRUE, actions |-> <<>>]
    ELSE [threw |-> FALSE,
          actions |->
              (IF data.action = "update" /\ shouldUpdateTicket(closure, data.ticket)
               THEN <<LoadAction(<<data.ticket>>)>> ELSE <<>>)
              \o (IF data.action = "delete" THEN <<ResetAction>> ELSE <<>>)]

RECURSIVE DispatchAll(_, _)
DispatchAll(state, actions) ==
    IF actions = <<>> THEN state
    ELSE DispatchAll(reducer(state, Head(actions)), Tail(actions))

\* index.js:106-113: the payload the LOAD_TICKETS effect dispatches
LoadPayload(page, u) ==
    IF u.profile = "user"
    THEN SelectSeq(page, LAMBDA t : t.queueId \in u.queues \/ t.queueId = NoQueue)
    ELSE page

\* a plausible slip: the guard on loading is left out
handleScrollNoLoadingGuard(isLoading, more, nearEnd, page) ==
    IF ~more THEN page
    ELSE IF nearEnd THEN page + 1 ELSE page

\* handleScroll, index.js:155-162: the pageNumber it leaves
handleScroll(isLoading, more, nearEnd, page) ==
    IF isLoading \/ ~more THEN page
    ELSE IF nearEnd THEN page + 1 ELSE page

\* The socket the effect opens, index.js:131-149: its handlers close over
\* status, showAll, user and selectedQueueIds of the render that ran the
\* effect; joined is the channel emitted with joinTickets, "" before "ready".
OpenSocket(p, u) ==
    [status |-> p.status, showAll |-> p.showAll, userId |-> u.id,
     selectedQueueIds |-> p.selectedQueueIds, joined |-> ""]

\* a plausible slip: the effect returns no cleanup
SocketCleanupMissing(socks) == socks

\* index.js:151: the effect's cleanup disconnects the socket it opened
SocketCleanup(socks) ==
    IF socks = <<>> THEN socks ELSE SubSeq(socks, 1, Len(socks) - 1)

\* index.js:130-152: the socket effect re-run: cleanup first, then the body
SocketEffect(socks, p, u) == Append(SocketCleanup(socks), OpenSocket(p, u))

\* The dependencies of the socket effect changed, index.js:152
SocketDepsChanged(p, q, u, v) ==
    \/ p.status # q.status
    \/ p.showAll # q.showAll
    \/ p.selectedQueueIds # q.selectedQueueIds
    \/ u # v

Event(kind, malformed, threw, dispatched) ==
    [kind |-> kind, malformed |-> malformed, threw |-> threw,
     dispatched |-> dispatched]

ActionTypes(actions) == [i \in 1..Len(actions) |-> actions[i].type]

\* useTickets, of which only the call is in index.js:96-103: a change of its
\* parameters sets loading and requests the page from ListTicketsService.
HookFetch(page, g) ==
    /\ loading' = TRUE
    /\ ServiceCall(Operator, page, g)

\* The component after its first render and effects: empty list, page 1, the
\* socket open, the first page requested.
ListInit ==
    /\ ticketsList = <<>>
    /\ lastAction = NoAction
    /\ prevTicketsList = <<>>
    /\ mounted = TRUE
    /\ props = InitialProps
    /\ user = InitialUser
    /\ pageNumber = 1
    /\ tickets = <<>>
    /\ hasMore = FALSE
    /\ loading = TRUE
    /\ sockets = <<OpenSocket(InitialProps, InitialUser)>>
    /\ filterGen = 0
    /\ lastEvent = Event("mount", FALSE, FALSE, <<"LOAD_TICKETS", "RESET">>)
    /\ currentAbortController = 1
    /\ inflight = { [id |-> 1, consumer |-> Operator, pageNumber |-> 1, gen |-> 0,
                     aborted |-> FALSE, superseded |-> FALSE] }
    /\ nextCall = 1
    /\ lastResolved = NoneResolved
    /\ BackendIdle

\* The props in which two renders differ.
Changed(p, q) == { f \in DOMAIN p : p[f] # q[f] }

\* The parent passes another value of one filter prop (index.js:116-120,
\* 130-152, 96-103):
\* RESET and page 1, the socket effect if one of its dependencies changed,
\* and the request of page 1 under the new filter.
FilterChange ==
    \E q \in PropsSpace :
        /\ mounted
        /\ Cardinality(Changed(props, q)) = 1
        /\ filterGen < MaxFilterChanges
        /\ props' = q
        /\ filterGen' = filterGen + 1
        /\ ticketsList' = reducer(ticketsList, ResetAction)
        /\ pageNumber' = 1
        /\ sockets' = IF SocketDepsChanged(props, q, user, user)
                      THEN SocketEffect(sockets, q, user) ELSE sockets
        /\ HookFetch(1, filterGen + 1)
        /\ lastEvent' = Event("filter", FALSE, FALSE, <<"RESET">>)
        /\ UNCHANGED <<mounted, user, tickets, hasMore, lastAction, prevTicketsList,
                       backendVars>>

\* AuthContext holds another user (index.js:93-94, 106-114, 130-152): the
\* socket effect re-runs, and the LOAD_TICKETS effect re-dispatches the page
\* it holds, because queues and profile changed.
UserChange ==
    \E i \in 1..(Len(SignIns) - 1) :
      LET v == SignIns[i + 1] IN
        /\ mounted
        /\ user = SignIns[i]
        /\ user' = v
        /\ sockets' = SocketEffect(sockets, props, v)
        /\ ticketsList' = reducer(ticketsList, LoadAction(LoadPayload(tickets, v)))
        /\ lastEvent' = Event("user", FALSE, FALSE, <<"LOAD_TICKETS">>)
        /\ UNCHANGED <<mounted, props, pageNumber, tickets, hasMore, loading,
                       filterGen, serviceVars, lastAction, prevTicketsList,
                       backendVars>>

\* onScroll (index.js:155-162); a new pageNumber is a new parameter of
\* useTickets, which requests that page.
Scroll ==
    \E nearEnd \in BOOLEAN :
        LET page == handleScroll(loading, hasMore, nearEnd, pageNumber) IN
        /\ mounted
        /\ page <= MaxPage
        /\ pageNumber' = page
        /\ IF page # pageNumber
           THEN HookFetch(page, filterGen)
           ELSE UNCHANGED <<loading, serviceVars>>
        /\ lastEvent' = Event("scroll", FALSE, FALSE, <<>>)
        /\ UNCHANGED <<mounted, props, user, tickets, hasMore, sockets, filterGen,
                       ticketsList, lastAction, prevTicketsList, backendVars>>

\* useTickets when the response of a request arrives: the page becomes
\* tickets and hasMore and loading ends; a failed request only ends loading.
HookDeliver(r) ==
    /\ loading' = FALSE
    /\ IF r.outcome = "page"
       THEN /\ tickets' = r.response.tickets
            /\ hasMore' = r.response.hasMore
       ELSE UNCHANGED <<tickets, hasMore>>

\* A request settles at the service (part_000:45-56) and its response reaches
\* useTickets; the LOAD_TICKETS effect merges the new page (index.js:106-114).
PageArrives ==
    \E call \in inflight :
        \E db \in DbResults(call.pageNumber, call.gen) :
            LET r == Resolve(call, db) IN
            /\ SettleCall(call)
            /\ UNCHANGED lastResolved
            /\ IF mounted
               THEN /\ HookDeliver(r)
                    /\ IF r.outcome = "page"
                       THEN /\ ticketsList' =
                                  reducer(ticketsList,
                                          LoadAction(LoadPayload(r.response.tickets, user)))
                            /\ lastEvent' =
                                  Event("page", FALSE, FALSE, <<"LOAD_TICKETS">>)
                       ELSE /\ UNCHANGED ticketsList
                            /\ lastEvent' = Event("page", FALSE, TRUE, <<>>)
               ELSE UNCHANGED <<loading, tickets, hasMore, ticketsList, lastEvent>>
            /\ UNCHANGED <<mounted, props, user, pageNumber, sockets, filterGen,
                           lastAction, prevTicketsList, backendVars>>

\* socket.on("ready", ...), index.js:137-139
SocketReady ==
    \E i \in 1..Len(sockets) :
        /\ sockets' = [sockets EXCEPT ![i].joined = ChannelKey(sockets[i].status)]
        /\ lastEvent' = Event("ready", FALSE, FALSE, <<>>)
        /\ UNCHANGED <<mounted, props, user, pageNumber, tickets, hasMore, loading,
                       filterGen, serviceVars, reducerVars, backendVars>>

\* socket.on("ticket", ...), index.js:141-149, on a socket that joined
PushEvent ==
    \E i \in 1..Len(sockets) :
        \E data \in PushEvents(filterGen) :
            LET h == OnTicket(sockets[i], data) IN
            /\ sockets[i].joined # ""
            /\ ticketsList' = DispatchAll(ticketsList, h.actions)
            /\ lastEvent' = Event("push", Malformed(data), h.threw,
                                  ActionTypes(h.actions))
            /\ UNCHANGED <<mounted, props, user, pageNumber, tickets, hasMore,
                           loading, sockets, filterGen, serviceVars,
                           lastAction, prevTicketsList, backendVars>>

\* The component unmounts: the socket effect's cleanup runs (index.js:151).
Unmount ==
    /\ mounted
    /\ mounted' = FALSE
    /\ sockets' = SocketCleanup(sockets)
    /\ lastEvent' = Event("unmount", FALSE, FALSE, <<>>)
    /\ UNCHANGED <<props, user, pageNumber, tickets, hasMore, loading, filterGen,
                   serviceVars, reducerVars, backendVars>>

ListNext ==
    \/ FilterChange
    \/ UserChange
    \/ Scroll
    \/ PageArrives
    \/ SocketReady
    \/ PushEvent
    \/ Unmount

SpecList == ListInit /\ [][ListNext]_vars

-----------------------------------------------------------------------------
(* C3 *)

\* C3: No stale merge. Once a filter change has reset the list, no page that
\* was requested under the previous filter is merged: every ticket of the
\* list was delivered by a fetch or a push event issued under the filter that
\* is active now.
C3_NoStaleMerge ==
    \A i \in 1..Len(ticketsList) : ticketsList[i].gen = filterGen

-----------------------------------------------------------------------------
(* C7 *)

\* C7: Pagination backpressure. A scroll signal raises pageNumber by exactly
\* 1, and only when loading is false and hasMore is true; while loading, or
\* once hasMore is false, it leaves pageNumber unchanged; a filter change
\* sets pageNumber to 1; pageNumber is always >= 1.
C7_PaginationBackpressure ==
    /\ [](pageNumber >= 1)
    /\ [][ /\ lastEvent'.kind = "scroll" =>
                \/ pageNumber' = pageNumber
                \/ pageNumber' = pageNumber + 1 /\ ~loading /\ hasMore
           /\ (lastEvent'.kind = "scroll" /\ (loading \/ ~hasMore)) =>
                pageNumber' = pageNumber
           /\ lastEvent'.kind = "filter" => pageNumber' = 1
         ]_vars

\* a filter change has set pageNumber back to 1 while the request of page 2,
\* raised by a scroll signal, was still awaited
C7_Witness ==
    /\ lastEvent.kind = "filter"
    /\ pageNumber = 1
    /\ \E c \in inflight : c.pageNumber = 2 /\ c.gen + 1 = filterGen

-----------------------------------------------------------------------------
(* C8 *)

\* C8: Malformed push events are dropped. A push event that lacks a required
\* field (in particular an update without ticket) dispatches nothing and
\* does not end in an error: the handler does not throw.
C8_MalformedDropped ==
    (lastEvent.kind = "push" /\ lastEvent.malformed) =>
        (~lastEvent.threw /\ lastEvent.dispatched = <<>>)

-----------------------------------------------------------------------------
(* C9 *)

\* The membership predicate over the filter and the user that are active now.
InActiveScope(ticket) ==
    /\ (ticket.userId = NoUser \/ ticket.userId = user.id \/ props.showAll)
    /\ (ticket.queueId = NoQueue \/ ticket.queueId \in props.selectedQueueIds)

Updates == { data \in PushEvents(filterGen) : data.action = "update" /\ data.hasTicket }

\* C9: Push-update membership. A push event with action "update" is merged as
\* a one-ticket batch if and only if (the ticket has no userId, or its userId
\* is the current user's, or showAll) and (it has no queueId, or its queueId
\* is in the active queueIds), over the filter active now; when the predicate
\* is false the list is left unchanged.
C9_PushMembership ==
    /\ [](\A i \in 1..Len(sockets) : \A data \in Updates :
            LET h == OnTicket(sockets[i], data) IN
            /\ ~h.threw
            /\ InActiveScope(data.ticket) => h.actions = <<LoadAction(<<data.ticket>>)>>
            /\ ~InActiveScope(data.ticket) => h.actions = <<>>)
    /\ [][ /\ (lastEvent'.kind = "push" /\ lastEvent'.dispatched = <<"LOAD_TICKETS">>) =>
                \E data \in Updates :
                    /\ InActiveScope(data.ticket)
                    /\ ticketsList' = reducer(ticketsList, LoadAction(<<data.ticket>>))
           /\ (lastEvent'.kind = "push" /\ lastEvent'.dispatched = <<>>) =>
                ticketsList' = ticketsList
         ]_vars

\* after the filter changed to showAll, an update of a ticket owned by another
\* user has been merged
C9_Witness ==
    /\ lastEvent.kind = "push"
    /\ lastEvent.dispatched = <<"LOAD_TICKETS">>
    /\ props.showAll
    /\ filterGen > 0
    /\ \E i \in 1..Len(ticketsList) :
          /\ ticketsList[i].userId \notin {NoUser, user.id}
          /\ ticketsList[i].gen = filterGen

-----------------------------------------------------------------------------
(* C10 *)

\* C10: Subscription lifecycle. Across changes of status, showAll, user or
\* queueIds the old subscription is torn down before the new one is set up:
\* at most one socket is connected, the channel it joined is the active
\* status (or "general" when status is unset); after unmount no socket is
\* left and no push event is handled.
C10_SubscriptionLifecycle ==
    /\ Len(sockets) <= 1
    /\ \A i \in 1..Len(sockets) :
          /\ sockets[i].status = props.status
          /\ sockets[i].joined # "" => sockets[i].joined = ChannelKey(props.status)
    /\ ~mounted => sockets = <<>>
    /\ lastEvent.kind = "push" => mounted

\* after a change of status, the one socket has joined the channel of the new
\* status
C10_Witness ==
    /\ props.status # InitialProps.status
    /\ Len(sockets) = 1
    /\ sockets[1].joined = ChannelKey(props.status)

-----------------------------------------------------------------------------
(* C11 *)

\* C11: Reset clears. RESET takes every list, of any size, to the empty list,
\* and every change of status, searchParam, showAll, selectedQueueIds or tags
\* dispatches it: the step that changes a filter prop leaves the list empty.
C11_ResetClears ==
    /\ [](/\ reducer(ticketsList, ResetAction) = <<>>
          /\ \A b \in ReducerBatches :
                reducer(LoadTickets(<<>>, b), ResetAction) = <<>>)
    /\ [][ /\ props' # props =>
                /\ lastEvent'.kind = "filter"
                /\ lastEvent'.dispatched = <<"RESET">>
           /\ lastEvent'.kind = "filter" => ticketsList' = <<>>
         ]_vars

\* a filter change has emptied the list after a page had been delivered
C11_Witness ==
    /\ lastEvent.kind = "filter"
    /\ tickets # <<>>
    /\ ticketsList = <<>>
    /\ filterGen >= 1

-----------------------------------------------------------------------------
(* ListTicketsServiceInternal, part_000:60-212: the where condition it     *)
(* builds from the Request and the page it reads with it.                  *)

MaxQueryPage == 4       \* highest pageNumber of a Request

\* Strings are sequences of characters.
LowerChar(c) == CASE c = "A" -> "a" [] c = "B" -> "b" [] OTHER -> c

\* String.prototype.toLowerCase, SQL LOWER
toLowerCase(str) == [i \in 1..Len(str) |-> LowerChar(str[i])]

RECURSIVE trim(_)
\* String.prototype.trim
trim(str) ==
    IF str # <<>> /\ Head(str) = " " THEN trim(Tail(str))
    ELSE IF str # <<>> /\ str[Len(str)] = " "
         THEN trim(SubSeq(str, 1, Len(str) - 1))
         ELSE str

\* SQL  text LIKE '%pattern%'
Like(text, pattern) ==
    \E i \in 1..(Len(text) + 1) :
        /\ i + Len(pattern) - 1 <= Len(text)
        /\ SubSeq(text, i, i + Len(pattern) - 1) = pattern

\* A row of Ticket with its contact and the bodies of its messages. Days
\* stand for the calendar day of createdAt and updatedAt.
TicketRow(id, userId, status, queueId, unread, createdDay, updatedDay, name, number, messages) ==
    [id |-> id, userId |-> userId, status |-> status, queueId |-> queueId,
     unreadMessages |-> unread, createdAt |-> createdDay, updatedAt |-> updatedDay,
     contact |-> [name |-> name, number |-> number], messages |-> messages]

\* A store of five tickets that differ in owner, status, queue, unread count,
\* days, contact and messages, in the order of updatedAt DESC, with the tags
\* of tickets 1, 2 and 4 and the queues of the two users.
FilterStore ==
    [tickets |->
        << TicketRow(1, 1, "open", NoQueue, 0, 1, 2, <<"A", "b">>, <<"1">>, <<>>),
           TicketRow(2, 2, "open", 1, 1, 1, 2, <<"b">>, <<"2">>, << <<"b", "A">> >>),
           TicketRow(3, 2, "pending", 2, 1, 2, 1, <<"B">>, <<"1">>, <<>>),
           TicketRow(4, NoUser, "pending", NoQueue, 2, 2, 1, <<"b", "b">>, <<"2">>,
                     << <<"b">> >>),
           TicketRow(5, 2, "closed", 1, 0, 1, 1, <<"a">>, <<"2">>, <<>>) >>,
     ticketTags |->
        << [ticketId |-> 1, tagId |-> 1], [ticketId |-> 2, tagId |-> 1],
           [ticketId |-> 2, tagId |-> 2], [ticketId |-> 4, tagId |-> 2] >>,
     userQueues |-> <<{1}, {1, 2}>>]

\* A store of n tickets of user 1, alike but for their id, each with tag 1.
BulkStore(n) ==
    [tickets |->
        [i \in 1..n |-> TicketRow(i, 1, "open", NoQueue, 0, 1, 1, <<"a">>, <<"1">>, <<>>)],
     ticketTags |-> [i \in 1..n |-> [ticketId |-> i, tagId |-> 1]],
     userQueues |-> <<{1}, {1, 2}>>]

BulkSizes == {0, 40, 41, 85, 120}

QueryStores == {FilterStore} \cup { BulkStore(n) : n \in BulkSizes }

\* The Requests (part_000:13-24). "" is an absent string, <<>> an absent
\* searchParam, day 0 an absent date.
Requests ==
    [searchParam : {<<>>, <<"a">>, <<"A", " ">>, <<" ">>, <<"1">>},
     pageNumber : 1..MaxQueryPage,
     status : {"", "open"},
     date : {0, 1},
     updatedAt : {0, 2},
     showAll : {"", "true"},
     userId : {1, 2},
     withUnreadMessages : {"", "true"},
     queueIds : {{}, {1}},
     tags : {<<>>, <<1>>, <<1, 2>>, <<3>>}]

\* The Requests that differ in what pagination reads: page, search, tags,
\* showAll and withUnreadMessages.
PageRequests ==
    { req \in Requests :
        /\ req.status = "" /\ req.date = 0 /\ req.updatedAt = 0
        /\ req.userId = 1 /\ req.queueIds = {1} }

\* The five-ticket store is queried with every Request, the stores of n
\* tickets page by page.
RequestsOf(store) == IF store = FilterStore THEN Requests ELSE PageRequests

\* ---- the clauses of a where condition

NoClause == [op |-> "none"]

\* {} : no key is set
EmptyWhere ==
    [or |-> NoClause, queueId |-> NoClause, status |-> NoClause,
     createdAt |-> NoClause, updatedAt |-> NoClause,
     unreadMessages |-> NoClause, id |-> NoClause]

\* [Op.or]: [{ userId }, { status: "pending" }]
OwnerOrPending(userId) == [op |-> "owner", userId |-> userId]

\* queueId: { [Op.or]: [queueIds, null] }
InOrNull(queueIds) == [op |-> "inOrNull", values |-> queueIds]

\* [Op.or]: [contact.name LIKE, contact.number LIKE, LOWER(body) LIKE]
SearchClause(pattern) == [op |-> "search", pattern |-> pattern]

\* part_000:80-83
WhereBase(userId, queueIds) ==
    [EmptyWhere EXCEPT !.or = OwnerOrPending(userId),
                       !.queueId = InOrNull(queueIds)]

\* part_000:108-110
WhereShowAll(w, showAll, queueIds) ==
    IF showAll = "true"
    THEN [EmptyWhere EXCEPT !.queueId = InOrNull(queueIds)]
    ELSE w

\* part_000:112-117
WhereStatus(w, status) ==
    IF status # "" THEN [w EXCEPT !.status = [op |-> "eq", value |-> status]]
    ELSE w

\* a plausible slip: the search is a further key, next to the [Op.or] of
\* the owner
WhereSearchWithinOwner(w, searchParam) ==
    IF searchParam # <<>>
    THEN [w EXCEPT !.id = IF w.or.op = "owner"
                           THEN [op |-> "searchOwned", userId |-> w.or.userId,
                                 pattern |-> trim(toLowerCase(searchParam))]
                           ELSE SearchClause(trim(toLowerCase(searchParam)))]
    ELSE w

\* part_000:119-147: the spread keeps the keys of whereCondition and sets
\* [Op.or], which replaces the [Op.or] already there.
WhereSearch(w, searchParam) ==
    IF searchParam # <<>>
    THEN LET sanitizedSearchParam == trim(toLowerCase(searchParam))
         IN  [w EXCEPT !.or = SearchClause(sanitizedSearchParam)]
    ELSE w

\* part_000:149-156
WhereDate(w, date) ==
    IF date # 0 THEN [w EXCEPT !.createdAt = [op |-> "day", value |-> date]]
    ELSE w

\* part_000:158-165
WhereUpdatedAt(w, updatedAt) ==
    IF updatedAt # 0 THEN [w EXCEPT !.updatedAt = [op |-> "day", value |-> updatedAt]]
    ELSE w

\* part_000:167-176: a new object, none of the keys set before is kept
WhereUnread(w, withUnreadMessages, userId, userQueueIds) ==
    IF withUnreadMessages = "true"
    THEN [EmptyWhere EXCEPT !.or = OwnerOrPending(userId),
                            !.queueId = InOrNull(userQueueIds),
                            !.unreadMessages = [op |-> "gt", value |-> 0]]
    ELSE w

\* TicketTag.findAll({ where: { tagId: { [Op.in]: tags } } }), part_000:179-182
FindTicketTags(ticketTags, tags) ==
    SelectSeq(ticketTags, LAMBDA row : \E i \in 1..Len(tags) : tags[i] = row.tagId)

\* lodash intersection of the arrays given: the values of the first array
\* that every other array has, each once; as the set of them.
intersection(arrays) ==
    IF arrays = <<>> THEN {}
    ELSE { x \in { arrays[1][i] : i \in 1..Len(arrays[1]) } :
             \A k \in 2..Len(arrays) :
                \E j \in 1..Len(arrays[k]) : arrays[k][j] = x }

\* a plausible slip: no ticket with any of the tags leaves the condition as
\* it was
WhereTagsSkipEmpty(w, tags, ticketTags) ==
    LET found == FindTicketTags(ticketTags, tags)
        ticketsIntersection ==
            intersection(<< [i \in 1..Len(found) |-> found[i].ticketId] >>)
    IN  IF Len(tags) > 0 /\ ticketsIntersection # {}
        THEN [w EXCEPT !.id = [op |-> "in", values |-> ticketsIntersection]]
        ELSE w

\* part_000:178-190
WhereTags(w, tags, ticketTags) ==
    IF Len(tags) > 0
    THEN LET found == FindTicketTags(ticketTags, tags)
             ticketsIntersection ==
                intersection(<< [i \in 1..Len(found) |-> found[i].ticketId] >>)
         IN  [w EXCEPT !.id = [op |-> "in", values |-> ticketsIntersection]]
    ELSE w

\* whereCondition as it stands before the tags are read, part_000:80-176
WhereBeforeTags(req, store) ==
    WhereUnread(
        WhereUpdatedAt(
            WhereDate(
                WhereSearch(
                    WhereStatus(
                        WhereShowAll(WhereBase(req.userId, req.queueIds),
                                     req.showAll, req.queueIds),
                        req.status),
                    req.searchParam),
                req.date),
            req.updatedAt),
        req.withUnreadMessages, req.userId, store.userQueues[req.userId])

\* whereCondition as findAndCountAll receives it, part_000:80-190
whereCondition(req, store) ==
    WhereTags(WhereBeforeTags(req, store), req.tags, store.ticketTags)

\* ---- what the store answers

OwnerHolds(c, t) == t.userId = c.userId \/ t.status = "pending"

SearchHolds(c, t) ==
    \/ Like(toLowerCase(t.contact.name), c.pattern)
    \/ Like(t.contact.number, c.pattern)
    \/ \E m \in 1..Len(t.messages) : Like(toLowerCase(t.messages[m]), c.pattern)

\* The row satisfies every key of the condition.
Holds(w, t) ==
    /\ CASE w.or.op = "owner"  -> OwnerHolds(w.or, t)
         [] w.or.op = "search" -> SearchHolds(w.or, t)
         [] OTHER              -> TRUE
    /\ w.queueId.op = "inOrNull" =>
          (t.queueId \in w.queueId.values \/ t.queueId = NoQueue)
    /\ w.status.op = "eq" => t.status = w.status.value
    /\ w.createdAt.op = "day" => t.createdAt = w.createdAt.value
    /\ w.updatedAt.op = "day" => t.updatedAt = w.updatedAt.value
    /\ w.unreadMessages.op = "gt" => t.unreadMessages > w.unreadMessages.value
    /\ CASE w.id.op = "in" -> t.id \in w.id.values
         [] w.id.op = "search" -> SearchHolds(w.id, t)
         [] w.id.op = "searchOwned" -> SearchHolds(w.id, t) /\ OwnerHolds(w.id, t)
         [] OTHER -> TRUE

Min(a, b) == IF a < b THEN a ELSE b

\* Ticket.findAndCountAll({ where, limit, offset, order: updatedAt DESC }),
\* part_000:195-203: the number of tickets that satisfy the condition and
\* the page of them that starts after offset.
findAndCountAll(store, w, lim, off) ==
    LET matching == SelectSeq(store.tickets, LAMBDA t : Holds(w, t))
    IN  [kind |-> "rows",
         rows |-> SubSeq(matching, off + 1, Min(off + lim, Len(matching))),
         count |-> Len(matching)]

\* part_000:60-212
ListTicketsServiceInternal(req, store) ==
    InternalPage(req.pageNumber,
                 findAndCountAll(store, whereCondition(req, store),
                                 limit, Offset(req.pageNumber)))

-----------------------------------------------------------------------------
(* SpecQuery: one call of ListTicketsServiceInternal on a store *)

QueryInit ==
    /\ queryStore \in QueryStores
    /\ queryRequest = <<>>
    /\ queryResponse = <<>>
    /\ RefreshIdle
    /\ ticketsList = <<>>
    /\ lastAction = NoAction
    /\ prevTicketsList = <<>>
    /\ ServiceInit
    /\ ListIdle

Query ==
    \E req \in RequestsOf(queryStore) :
        /\ queryRequest = <<>>
        /\ queryRequest' = req
        /\ queryResponse' = ListTicketsServiceInternal(req, queryStore)
        /\ UNCHANGED <<queryStore, refreshVars, reducerVars, serviceVars, listVars>>

QueryNext == Query

SpecQuery == QueryInit /\ [][QueryNext]_vars

-----------------------------------------------------------------------------
(* C12 *)

\* C12: Pagination math. With page size 40 and offset = 40 * (pageNumber - 1)
\* a fetch returns hasMore = (totalCount > offset + returnedCount), for every
\* pageNumber >= 1 and totalCount >= 0; so hasMore is true exactly when
\* tickets exist beyond the returned page, and for totalCount = 85 it is
\* true on pages 1 and 2 and false on page 3 and on every later page.
C12_PaginationMath ==
    queryRequest # <<>> =>
        LET page          == queryRequest.pageNumber
            offset        == 40 * (page - 1)
            totalCount    == queryResponse.count
            returnedCount == Len(queryResponse.tickets)
        IN  /\ page >= 1 /\ totalCount >= 0
            /\ returnedCount <= 40
            /\ queryResponse.hasMore = (totalCount > offset + returnedCount)
            /\ queryResponse.hasMore = (totalCount > 40 * page)
            /\ totalCount = 85 => (queryResponse.hasMore = (page \in {1, 2}))

\* page 3 of 85 tickets: the last 5 of them, and hasMore = false
C12_Witness ==
    /\ queryRequest # <<>>
    /\ queryRequest.pageNumber = 3
    /\ queryResponse.count = 85
    /\ Len(queryResponse.tickets) = 5
    /\ queryResponse.tickets[1].id = 81
    /\ ~queryResponse.hasMore

-----------------------------------------------------------------------------
(* C13 *)

\* The ids of the tickets that TicketTag associates with any of the tags.
TaggedWithAny(store, tags) ==
    { store.ticketTags[j].ticketId :
        j \in { i \in 1..Len(store.ticketTags) :
                  \E k \in 1..Len(tags) : tags[k] = store.ticketTags[i].tagId } }

\* C13: Tag filter. When a non-empty tag-id set is given, the tickets
\* returned are exactly the otherwise-visible tickets (page by page, with
\* their count) whose id is associated with ANY of the given tags; if no
\* ticket is associated with any of them the page is empty, never the
\* unfiltered page.
C13_TagFilter ==
    (queryRequest # <<>> /\ queryRequest.tags # <<>>) =>
        LET tagged  == TaggedWithAny(queryStore, queryRequest.tags)
            before  == WhereBeforeTags(queryRequest, queryStore)
            visible == SelectSeq(queryStore.tickets,
                                 LAMBDA t : Holds(before, t) /\ t.id \in tagged)
            off     == 40 * (queryRequest.pageNumber - 1)
        IN  /\ queryResponse.tickets =
                  SubSeq(visible, off + 1, Min(off + 40, Len(visible)))
            /\ queryResponse.count = Len(visible)
            /\ tagged = {} => (queryResponse.tickets = <<>> /\ queryResponse.count = 0)

\* tags 1 and 2 requested together with showAll: tickets 1 and 4, which have
\* one of the two tags each, are returned with ticket 2, which has both
C13_Witness ==
    /\ queryRequest # <<>>
    /\ queryRequest.tags = <<1, 2>>
    /\ queryStore = FilterStore
    /\ { queryResponse.tickets[i].id : i \in 1..Len(queryResponse.tickets) } = {1, 2, 4}

-----------------------------------------------------------------------------
(* C14 *)

\* the list without its entry at position i
Without(list, i) ==
    [k \in 1..(Len(list) - 1) |-> IF k < i THEN list[k] ELSE list[k + 1]]

\* C14: Merge positions. For a one-ticket batch [t] merged into a list s of
\* unique ids: if t.id is in s at index i and t.unreadMessages = 0, t's new
\* data is at index i and every other entry at its old index; if t.id is in
\* s and t.unreadMessages > 0, t is first and the other entries keep their
\* relative order; if t.id is not in s, t is last, whatever its unread count.
C14_MergePositions ==
    (lastAction.type = "LOAD_TICKETS" /\ Len(lastAction.payload) = 1) =>
        LET s == prevTicketsList
            t == lastAction.payload[1]
            i == IndexOf(s, t.id)
        IN  /\ (i # 0 /\ t.unreadMessages = 0) =>
                  /\ Len(ticketsList) = Len(s)
                  /\ ticketsList[i] = t
                  /\ \A k \in 1..Len(s) : k # i => ticketsList[k] = s[k]
            /\ (i # 0 /\ t.unreadMessages > 0) =>
                  /\ Len(ticketsList) = Len(s)
                  /\ ticketsList[1] = t
                  /\ Tail(ticketsList) = Without(s, i)
            /\ i = 0 =>
                  /\ Len(ticketsList) = Len(s) + 1
                  /\ ticketsList[Len(ticketsList)] = t
                  /\ \A k \in 1..Len(s) : ticketsList[k] = s[k]

\* an unread ticket that was not in a non-empty list has been appended
C14_Witness ==
    /\ lastAction.type = "LOAD_TICKETS"
    /\ Len(lastAction.payload) = 1
    /\ lastAction.payload[1].unreadMessages > 0
    /\ lastAction.payload[1].id \notin Ids(prevTicketsList)
    /\ Len(prevTicketsList) >= 1
    /\ ticketsList[Len(ticketsList)] = lastAction.payload[1]

-----------------------------------------------------------------------------
(* C19 *)

\* The merge of batch b into list s gave r: no ticket is lost, and the
\* tickets of s that b does not name keep their data and relative order.
FrameHolds(s, b, r) ==
    LET untouched == { k \in 1..Len(s) : s[k].id \notin Ids(b) }
    IN  /\ Ids(r) = Ids(s) \cup Ids(b)
        /\ Len(r) = Cardinality(Ids(s) \cup Ids(b))
        /\ \A k \in untouched : r[IndexOf(r, s[k].id)] = s[k]
        /\ \A k, m \in untouched :
              k < m => IndexOf(r, s[k].id) < IndexOf(r, s[m].id)

\* a ticket that no batch of the specification names
Bystander == Ticket(MaxId + 1, 0, NoUser, NoQueue, 0)

\* C19: Frame of a merge. A LOAD_TICKETS merge of a batch b into a list s of
\* unique ids removes no ticket and leaves the tickets outside the batch as
\* they are: the ids of the result are ids(s) union ids(b), its length is the
\* size of that union, and the tickets of s whose id is not in b keep their
\* data and their relative order. It is stated of the merge that was
\* dispatched last, and of the merge of each one-ticket batch into the list
\* with a further ticket before or after it.
C19_MergeFrame ==
    /\ lastAction.type = "LOAD_TICKETS" =>
          FrameHolds(prevTicketsList, lastAction.payload, ticketsList)
    /\ \A t \in ReducerTickets :
          \A s \in { Append(ticketsList, Bystander), <<Bystander>> \o ticketsList } :
              FrameHolds(s, <<t>>, reducer(s, LoadAction(<<t>>)))

\* a batch that moved an unread ticket of the list to the front and added a
\* new one has left the ticket outside the batch in the list
C19_Witness ==
    /\ lastAction.type = "LOAD_TICKETS"
    /\ Len(lastAction.payload) >= 1
    /\ Len(prevTicketsList) >= 2
    /\ \E k \in 1..Len(prevTicketsList) :
          /\ prevTicketsList[k].id \notin Ids(lastAction.payload)
          /\ k # IndexOf(ticketsList, prevTicketsList[k].id)

-----------------------------------------------------------------------------
(* C15 *)

Deletes == { data \in PushEvents(filterGen) : data.action = "delete" }

-----------------------------------------------------------------------------
(* C16 *)

\* C16: Per-consumer cancellation. A fetch is cancelled only by a newer
\* fetch of the same consumer: no step in which a consumer issues a fetch
\* triggers the abort signal of an unsettled fetch of another consumer, and
\* no step in which a fetch settles clears the cancellation handle that
\* belongs to an unsettled fetch of another consumer.
C16_PerConsumerCancellation ==
    [][ /\ \A c \in inflight : \A d \in inflight' :
              (d.id = c.id /\ d.aborted /\ ~c.aborted) =>
                  \E n \in inflight' :
                      /\ n.id = nextCall' /\ nextCall' # nextCall
                      /\ n.consumer = c.consumer
        /\ \A c \in inflight \cap inflight' :
              (c.id = currentAbortController /\ currentAbortController' = 0) =>
                  \A d \in inflight \ inflight' : d.consumer = c.consumer
      ]_vars

-----------------------------------------------------------------------------
(* C17 *)

\* text contains term, letter case apart
ContainsIgnoringCase(text, term) ==
    \E i \in 0..(Len(text) - Len(term)) :
        \A k \in 1..Len(term) : LowerChar(text[i + k]) = LowerChar(term[k])

\* C17: Search replaces the ownership clause. When searchParam is given and
\* withUnreadMessages is not set, a ticket is returned if and only if its
\* queueId is in queueIds or null, it has the status when status is given,
\* and the search term matches its contact name, its contact number or the
\* body of one of its messages (and it passes the date, updatedAt and tags
\* filters when those are given); the "owned by the operator or pending"
\* restriction does not apply, whatever showAll is.
C17_SearchReplacesOwnership ==
    ( /\ queryRequest # <<>>
      /\ queryRequest.searchParam # <<>>
      /\ queryRequest.withUnreadMessages # "true" ) =>
        LET req  == queryRequest
            term == trim(req.searchParam)
            Returned(t) ==
                /\ (t.queueId \in req.queueIds \/ t.queueId = NoQueue)
                /\ (req.status # "" => t.status = req.status)
                /\ \/ ContainsIgnoringCase(t.contact.name, term)
                   \/ ContainsIgnoringCase(t.contact.number, term)
                   \/ \E m \in 1..Len(t.messages) :
                         ContainsIgnoringCase(t.messages[m], term)
                /\ (req.date # 0 => t.createdAt = req.date)
                /\ (req.updatedAt # 0 => t.updatedAt = req.updatedAt)
                /\ (req.tags # <<>> => t.id \in TaggedWithAny(queryStore, req.tags))
            expected == SelectSeq(queryStore.tickets, Returned)
            off      == 40 * (req.pageNumber - 1)
        IN  /\ queryResponse.tickets =
                  SubSeq(expected, off + 1, Min(off + 40, Len(expected)))
            /\ queryResponse.count = Len(expected)

\* with showAll unset, a search has returned a ticket that another operator
\* owns and that is not pending
C17_Witness ==
    /\ queryRequest # <<>>
    /\ queryRequest.searchParam = <<"a">>
    /\ queryRequest.withUnreadMessages # "true"
    /\ queryRequest.showAll # "true"
    /\ \E i \in 1..Len(queryResponse.tickets) :
          /\ queryResponse.tickets[i].userId \notin {NoUser, queryRequest.userId}
          /\ queryResponse.tickets[i].status # "pending"

-----------------------------------------------------------------------------
(* C18 *)

\* C18: Reset is paired with page 1. Every clearing of the list, by a filter
\* change or by a delete push event, comes with pageNumber set back to 1, so
\* that the first page merged into the cleared list is page 1: when the
\* handler that ran last ended with a RESET, pageNumber is 1.
C18_ResetPairedWithPageOne ==
    ( /\ lastEvent.dispatched # <<>>
      /\ lastEvent.dispatched[Len(lastEvent.dispatched)] = "RESET" ) =>
        pageNumber = 1

-----------------------------------------------------------------------------
(* RefreshTokenService, RefreshTokenService.ts:24-57 *)

MaxTokenVersion == 2    \* tokenVersion of users and of tokens is 0..MaxTokenVersion

StoredUserIds == {1, 2}         \* the users ShowUserService finds
TokenUserIds == {1, 2, 3}       \* the ids a token can name

\* The User rows: tokenVersion of each stored user.
UserStores == [StoredUserIds -> [tokenVersion : 0..MaxTokenVersion]]

\* "" or undefined
NoToken ==
    [present |-> FALSE, signedWith |-> "", expired |-> FALSE, id |-> 0,
     tokenVersion |-> 0]

\* A JWT: the secret it was signed with, whether it has expired, and the
\* payload { id, tokenVersion }.
Tokens ==
    {NoToken} \cup
    [present : {TRUE}, signedWith : {"refreshSecret", "secret"},
     expired : BOOLEAN, id : TokenUserIds, tokenVersion : 0..MaxTokenVersion]

\* verify(token, secret) of jsonwebtoken: the payload, or a throw when the
\* signature is not of this secret or the token has expired.
verify(token, secret) ==
    IF token.signedWith = secret /\ ~token.expired
    THEN [threw |-> FALSE, id |-> token.id, tokenVersion |-> token.tokenVersion]
    ELSE [threw |-> TRUE, id |-> 0, tokenVersion |-> 0]

\* ShowUserService(id): the user, or a throw when there is none
ShowUserService(users, id) ==
    IF id \in DOMAIN users
    THEN [threw |-> FALSE, id |-> id, tokenVersion |-> users[id].tokenVersion]
    ELSE [threw |-> TRUE, id |-> 0, tokenVersion |-> 0]

NoIssued == [userId |-> 0, tokenVersion |-> 0]

\* createAccessToken(user), createRefreshToken(user)
createAccessToken(u) == [userId |-> u.id, tokenVersion |-> 0]
createRefreshToken(u) == [userId |-> u.id, tokenVersion |-> u.tokenVersion]

\* throw new AppError(message, 401), after clearCookie was called `cleared`
\* times on res
Fails(token, message, cleared) ==
    [token |-> token, outcome |-> "throw", statusCode |-> 401, message |-> message,
     clearCookie |-> cleared, userId |-> 0,
     newToken |-> NoIssued, refreshToken |-> NoIssued]

\* return { user, newToken, refreshToken }
Returns(token, u) ==
    [token |-> token, outcome |-> "return", statusCode |-> 0, message |-> "",
     clearCookie |-> 0, userId |-> u.id,
     newToken |-> createAccessToken(u), refreshToken |-> createRefreshToken(u)]

\* a plausible slip: the versions are not compared
tokenVersionIgnored(u, tokenVersion) == TRUE

\* RefreshTokenService.ts:43, its condition negated
tokenVersionMatches(u, tokenVersion) == u.tokenVersion = tokenVersion

\* RefreshTokenService.ts:24-57. The AppError thrown on a version mismatch
\* (line 45) is thrown inside the try block, so the catch clause of line 53
\* catches it, clears the cookie again and throws its own.
RefreshTokenService(token, users) ==
    IF ~token.present
    THEN Fails(token, "Refresh token nao fornecido", 1)
    ELSE LET decoded == verify(token, "refreshSecret") IN
         IF decoded.threw
         THEN Fails(token, "Sessao expirada ou token invalido", 1)
         ELSE LET u == ShowUserService(users, decoded.id) IN
              IF u.threw
              THEN Fails(token, "Sessao expirada ou token invalido", 1)
              ELSE IF ~tokenVersionMatches(u, decoded.tokenVersion)
                   THEN Fails(token, "Sessao expirada ou token invalido", 2)
                   ELSE Returns(token, u)

-----------------------------------------------------------------------------
(* SpecRefresh: RefreshTokenService called with any token, on any users *)

RefreshInit ==
    /\ userStore \in UserStores
    /\ refreshResult = <<>>
    /\ QueryIdle
    /\ ticketsList = <<>>
    /\ lastAction = NoAction
    /\ prevTicketsList = <<>>
    /\ ServiceInit
    /\ ListIdle

Refresh ==
    \E token \in Tokens :
        /\ refreshResult' = RefreshTokenService(token, userStore)
        /\ UNCHANGED <<userStore, queryVars, reducerVars, serviceVars, listVars>>

RefreshNext == Refresh

SpecRefresh == RefreshInit /\ [][RefreshNext]_vars

-----------------------------------------------------------------------------
(* C20 *)

\* C20: RefreshTokenService issues a new access token and a new refresh
\* token only when the token is non-empty, verifies against the refresh
\* secret, and carries the tokenVersion stored for the user it names; in
\* every other outcome (no token, failed verification, no such user, version
\* mismatch) it clears the "jrt" cookie and fails with a 401 AppError, and
\* issues no token.
C20_RefreshOnlyWhenValid ==
    refreshResult # <<>> =>
        LET tk    == refreshResult.token
            valid == /\ tk.present
                     /\ tk.signedWith = "refreshSecret"
                     /\ ~tk.expired
                     /\ tk.id \in StoredUserIds
                     /\ userStore[tk.id].tokenVersion = tk.tokenVersion
        IN  IF valid
            THEN /\ refreshResult.outcome = "return"
                 /\ refreshResult.userId = tk.id
                 /\ refreshResult.newToken.userId = tk.id
                 /\ refreshResult.refreshToken =
                       [userId |-> tk.id, tokenVersion |-> userStore[tk.id].tokenVersion]
                 /\ refreshResult.clearCookie = 0
            ELSE /\ refreshResult.outcome = "throw"
                 /\ refreshResult.statusCode = 401
                 /\ refreshResult.clearCookie >= 1
                 /\ refreshResult.newToken = NoIssued
                 /\ refreshResult.refreshToken = NoIssued

\* a token that verifies and names a stored user, with a tokenVersion other
\* than the stored one, has been refused with 401 and the cookie cleared
C20_Witness ==
    /\ refreshResult # <<>>
    /\ refreshResult.token.present
    /\ refreshResult.token.signedWith = "refreshSecret"
    /\ ~refreshResult.token.expired
    /\ refreshResult.token.id \in StoredUserIds
    /\ userStore[refreshResult.token.id].tokenVersion # refreshResult.token.tokenVersion
    /\ refreshResult.outcome = "throw"
    /\ refreshResult.statusCode = 401
    /\ refreshResult.clearCookie = 2

====
